---- MODULE Spec2Model ----
(***************************************************************************)
(* Session lifecycle (SessionService) and safety assessment                *)
(* (SafetyProtocolService) of the EMDR backend.                            *)
(*                                                                         *)
(* Spec       : every service call is one atomic action (requests served   *)
(*              one after the other).                                      *)
(* SpecAsync  : two service calls in flight on the same store; every await *)
(*              of a handler is a point where the other call may run.      *)
(* SpecAssess : assessCurrentState applied once to a session snapshot      *)
(*              drawn from bounded sets.                                   *)
(* SpecRisk   : calculateRiskLevel applied to a drawn list of indicators.  *)
(* SpecFail   : one call in which the store rejects one of the writes.      *)
(***************************************************************************)
EXTENDS Integers, Sequences, FiniteSets, TLC

VARIABLES
    sessions,        \* emdr_sessions table: sequence of rows, id = index
    sets,            \* emdr_sets table, per session: sequence of rows in insertion order
    checks,          \* safety_checks table, per session: oldest first
    activeSessions,  \* SessionService.activeSessions (in-memory metrics map)
    profile,         \* safety_profiles.riskLevel per user (read-only)
    clock,           \* wall clock in minutes
    last,            \* outcome of the most recent service call
    steps,           \* service calls made so far
    calls            \* SpecAsync: the calls in flight, with their position and locals;
                     \* SpecAssess, SpecRisk: the call made and the value it returned

vars == <<sessions, sets, checks, activeSessions, profile, clock, last, steps, calls>>

-----------------------------------------------------------------------------
(* Bounds *)

MaxSteps    == 5     \* service calls in one run of Spec
MaxSessions == 2     \* sessions created under Spec
TickMinutes == 121   \* minutes per clock advance

NULL == -1           \* SQL NULL / JavaScript undefined

\* a racing createSession may add one row more (SpecAsync)
SessionIds == 1..(MaxSessions + 1)
\* one user: sessions of different users share no state
Users      == {1}

\* inputs offered to the handlers
CreateSUDs  == {7, 8, 11}
CreateVOCs  == {3, 8}
FeedbackSUDs == {0, 2, 9, 10, 11}
FeedbackVOCs == {NULL, 0, 6, 8}
ProfileLevels == {"LOW", "HIGH"}
CompleteSUDs == {NULL, 11}
CompleteVOCs == {NULL, 6}
PhaseInputs  == {"PREPARATION", "DESENSITIZATION", "REEVALUATION", "resource_installation"}

-----------------------------------------------------------------------------
(* Enumerations *)

Phases == <<"PREPARATION", "ASSESSMENT", "DESENSITIZATION", "INSTALLATION",
            "BODY_SCAN", "CLOSURE", "REEVALUATION">>

PhaseSet == {Phases[i] : i \in 1..Len(Phases)}

ActiveStates   == {"PREPARING", "IN_PROGRESS", "PAUSED"}
TerminalStates == {"COMPLETED", "EMERGENCY_STOPPED"}

PhaseIndex(p) == CHOOSE i \in 1..Len(Phases) : Phases[i] = p

EmptyPhaseData == [p \in PhaseSet |-> NULL]

-----------------------------------------------------------------------------
(* SafetyProtocolService: the assessment pipeline *)

\* mutant: the fallback value is always taken
OrElseFallback(a, b) == b

\* JavaScript `a || b` on numbers: 0 and undefined are falsy
OrElse(a, b) == IF a # NULL /\ a # 0 THEN a ELSE b

Truthy(a) == a # NULL /\ a # 0

\* the last n elements of s, most recent first (orderBy timestamp desc, take n)
RECURSIVE TakeDesc(_, _)
TakeDesc(s, n) ==
    IF n = 0 \/ Len(s) = 0 THEN <<>>
    ELSE <<s[Len(s)]>> \o TakeDesc(SubSeq(s, 1, Len(s) - 1), n - 1)

Slice3(s) == SubSeq(s, 1, IF Len(s) < 3 THEN Len(s) ELSE 3)

\* description: the fixed part of the indicator's description text
Indicator(t, sev, d, v) == [type |-> t, severity |-> sev, description |-> d, value |-> v]

\* mutant: SUD 9 rated high, critical only at 10
SudIndicatorLate(cur) ==
    IF cur >= 8
    THEN <<Indicator("distress", IF cur >= 10 THEN "critical" ELSE "high",
                     "High distress level", cur)>>
    ELSE <<>>

SudIndicator(cur) ==
    IF cur >= 8
    THEN <<Indicator("distress", IF cur >= 9 THEN "critical" ELSE "high",
                     "High distress level", cur)>>
    ELSE <<>>

\* mutant: any rise of 3 or more is rated critical
EscalationIndicatorCritical(s, sessSets, cur) ==
    IF Len(sessSets) > 0 /\ cur - s.initialSUD >= 3
    THEN <<Indicator("distress", "critical", "Rapid distress increase", cur - s.initialSUD)>>
    ELSE <<>>

EscalationIndicator(s, sessSets, cur) ==
    IF Len(sessSets) > 0 /\ cur - s.initialSUD >= 3
    THEN <<Indicator("distress",
                     IF cur - s.initialSUD >= 5 THEN "critical" ELSE "high",
                     "Rapid distress increase", cur - s.initialSUD)>>
    ELSE <<>>

DurationIndicator(s, now) ==
    IF s.startTime # NULL /\ now - s.startTime > 120
    THEN <<Indicator("overwhelm",
                     IF now - s.startTime > 180 THEN "high" ELSE "medium",
                     "Extended session duration", now - s.startTime)>>
    ELSE <<>>

ProfileIndicator(risk) ==
    IF risk \in {"HIGH", "CRITICAL"}
    THEN <<Indicator("overwhelm", IF risk = "CRITICAL" THEN "critical" ELSE "high",
                     "High-risk user profile", NULL)>>
    ELSE <<>>

\* mutant: all five checks of the snapshot are looked at
RecentEmergencyIndicatorTake5(sessChecks) ==
    LET recentChecks == TakeDesc(sessChecks, 5)
    IN  IF \E i \in 1..Len(recentChecks) :
               recentChecks[i].action \in {"EMERGENCY_STOP", "PROFESSIONAL_REFERRAL"}
        THEN <<Indicator("overwhelm", "critical", "Recent emergency interventions", NULL)>>
        ELSE <<>>

RecentEmergencyIndicator(sessChecks) ==
    LET recentChecks == Slice3(TakeDesc(sessChecks, 5))
    IN  IF \E i \in 1..Len(recentChecks) :
               recentChecks[i].action \in {"EMERGENCY_STOP", "PROFESSIONAL_REFERRAL"}
        THEN <<Indicator("overwhelm", "critical", "Recent emergency interventions", NULL)>>
        ELSE <<>>

analyzeSession(s, sessSets, sessChecks, risk, now) ==
    LET currentSUD == OrElse(s.currentSUD, s.initialSUD)
    IN  SudIndicator(currentSUD)
        \o EscalationIndicator(s, sessSets, currentSUD)
        \o DurationIndicator(s, now)
        \o ProfileIndicator(risk)
        \o RecentEmergencyIndicator(sessChecks)

CountSeverity(indicators, sev) ==
    Cardinality({i \in 1..Len(indicators) : indicators[i].severity = sev})

\* mutant: a single high indicator already gives HIGH
calculateRiskLevelOneHigh(indicators) ==
    IF CountSeverity(indicators, "critical") > 0 THEN "CRITICAL"
    ELSE IF CountSeverity(indicators, "high") >= 1 THEN "HIGH"
    ELSE IF CountSeverity(indicators, "medium") >= 2 THEN "MEDIUM"
    ELSE "LOW"

calculateRiskLevel(indicators) ==
    IF CountSeverity(indicators, "critical") > 0 THEN "CRITICAL"
    ELSE IF CountSeverity(indicators, "high") >= 2 THEN "HIGH"
    ELSE IF CountSeverity(indicators, "high") = 1 THEN "MEDIUM"
    ELSE IF CountSeverity(indicators, "medium") >= 2 THEN "MEDIUM"
    ELSE "LOW"

determineAction(riskLevel, indicators) ==
    LET distressIndicators ==
            {i \in 1..Len(indicators) : indicators[i].type = "distress"}
    IN  CASE riskLevel = "CRITICAL" -> "EMERGENCY_STOP"
          [] riskLevel = "HIGH" ->
                IF /\ Cardinality(distressIndicators) = 1
                   /\ \A i \in distressIndicators :
                         Truthy(indicators[i].value) /\ indicators[i].value < 9
                THEN "GROUNDING" ELSE "PAUSE"
          [] riskLevel = "MEDIUM" -> "GROUNDING"
          [] OTHER -> "CONTINUE"

\* crisisResources, each resource by its type
crisisResources == <<"hotline", "text", "emergency", "professional">>

RECURSIVE FilterType(_, _)
FilterType(resources, t) ==
    IF resources = <<>> THEN <<>>
    ELSE (IF Head(resources) = t THEN <<t>> ELSE <<>>) \o FilterType(Tail(resources), t)

\* an intervention: its type, the number of instructions it lists and the
\* resources attached (none attached: the empty list)
Intervention(t, n, resources) == [type |-> t, instructions |-> n, resources |-> resources]

\* no intervention (undefined)
NoIntervention == Intervention("NONE", 0, <<>>)

\* the number of instructions of the 5-4-3-2-1 technique
getGroundingInstructions(indicators) ==
    IF \E i \in 1..Len(indicators) : indicators[i].type = "distress" THEN 8 ELSE 7

\* mutant: the emergency stop intervention comes without the resources
createInterventionBare(action, indicators) ==
    CASE action = "GROUNDING" ->
            Intervention("grounding", getGroundingInstructions(indicators), <<>>)
      [] action = "PAUSE" -> Intervention("pause", 4, <<>>)
      [] action = "EMERGENCY_STOP" -> Intervention("emergency_stop", 4, <<>>)
      [] action = "PROFESSIONAL_REFERRAL" ->
            Intervention("professional_referral", 3,
                         FilterType(crisisResources, "professional"))
      [] OTHER -> NoIntervention

\* the intervention attached to the recommended action
createIntervention(action, indicators) ==
    CASE action = "GROUNDING" ->
            Intervention("grounding", getGroundingInstructions(indicators), <<>>)
      [] action = "PAUSE" -> Intervention("pause", 4, <<>>)
      [] action = "EMERGENCY_STOP" -> Intervention("emergency_stop", 4, crisisResources)
      [] action = "PROFESSIONAL_REFERRAL" ->
            Intervention("professional_referral", 3,
                         FilterType(crisisResources, "professional"))
      [] OTHER -> NoIntervention

\* mutant: the fallback lets the session go on
createEmergencyAssessmentOpen ==
    [riskLevel |-> "LOW", action |-> "CONTINUE", intervention |-> NoIntervention,
     indicators |-> <<>>, recorded |-> FALSE]

\* the synthetic result returned when the pipeline throws
createEmergencyAssessment ==
    [riskLevel |-> "HIGH", action |-> "PAUSE",
     intervention |-> Intervention("pause", 3, crisisResources),
     indicators |-> <<Indicator("overwhelm", "high", "Safety assessment system error", NULL)>>,
     recorded |-> FALSE]

\* mutant: a failed safety_checks insert is rethrown and caught as a pipeline
\* failure
AssessmentWriteThrows(s, sessSets, sessChecks, risk, now, readOk, writeOk) ==
    IF ~readOk \/ ~writeOk THEN createEmergencyAssessment
    ELSE LET indicators == analyzeSession(s, sessSets, sessChecks, risk, now)
             riskLevel  == calculateRiskLevel(indicators)
             recommendedAction == determineAction(riskLevel, indicators)
         IN  [riskLevel    |-> riskLevel,
              action       |-> recommendedAction,
              intervention |-> createIntervention(recommendedAction, indicators),
              indicators   |-> indicators,
              recorded     |-> writeOk]

\* The assessment of session row s as read from the store.  readOk: the
\* snapshot query succeeds; writeOk: the safety_checks insert succeeds.
Assessment(s, sessSets, sessChecks, risk, now, readOk, writeOk) ==
    IF ~readOk THEN createEmergencyAssessment
    ELSE LET indicators == analyzeSession(s, sessSets, sessChecks, risk, now)
             riskLevel  == calculateRiskLevel(indicators)
             recommendedAction == determineAction(riskLevel, indicators)
         IN  [riskLevel    |-> riskLevel,
              action       |-> recommendedAction,
              intervention |-> createIntervention(recommendedAction, indicators),
              indicators   |-> indicators,
              recorded     |-> writeOk]

CheckRow(type, a) == [checkType |-> type, action |-> a.action, riskLevel |-> a.riskLevel]

\* safety_checks of one session after recordSafetyCheck of assessment a
recordSafetyCheck(sessChecks, a, type) ==
    IF a.recorded THEN Append(sessChecks, CheckRow(type, a)) ELSE sessChecks

-----------------------------------------------------------------------------
(* Store rows and helpers *)

NewSession(u, sud, voc) ==
    [userId |-> u, state |-> "PREPARING", phase |-> "PREPARATION",
     initialSUD |-> sud, currentSUD |-> sud, finalSUD |-> NULL,
     initialVOC |-> voc, currentVOC |-> voc, finalVOC |-> NULL,
     currentSetNumber |-> 0, phaseData |-> EmptyPhaseData,
     startTime |-> NULL,
     isResolved |-> FALSE]    \* targetMemory.isResolved of the session's target memory

NewSet(n) == [setNumber |-> n, open |-> TRUE, sud |-> NULL, voc |-> NULL]

NewMetrics(sud) == [phase |-> "PREPARATION", currentSet |-> 0, sudProgress |-> <<<<0, sud>>>>]

NoMetrics == [phase |-> "NONE", currentSet |-> NULL, sudProgress |-> <<>>]

Exists(sid) == sid \in DOMAIN sessions

Result(op, sid, ok, action) == [op |-> op, sid |-> sid, ok |-> ok, action |-> action]

\* assessCurrentState on the store as it is now
assessCurrentState(sid, readOk, writeOk) ==
    Assessment(sessions[sid], sets[sid], checks[sid], profile[sessions[sid].userId],
               clock, readOk, writeOk)

\* mutant: findFirst without the `endTime: null` filter
ActiveSetRowsAny(sid, n) ==
    {i \in 1..Len(sets[sid]) : sets[sid][i].setNumber = n}

\* the set rows endSet's findFirst may return
ActiveSetRows(sid, n) ==
    {i \in 1..Len(sets[sid]) : sets[sid][i].setNumber = n /\ sets[sid][i].open}

-----------------------------------------------------------------------------
(* SessionService guards *)

ValidSUD(sud) == ~(sud < 0 \/ sud > 10)

ValidVOC(voc) == ~(voc < 1 \/ voc > 7)

\* endSet: `voc && (voc < 1 || voc > 7)`
FeedbackVOCRejected(voc) == Truthy(voc) /\ (voc < 1 \/ voc > 7)

\* startSession refuses unless the assessment recommends CONTINUE
StartBlocked(action) == action # "CONTINUE"

\* resumeSession refuses only on EMERGENCY_STOP
ResumeBlocked(action) == action = "EMERGENCY_STOP"

\* mutant: startSet refuses on PAUSE instead of EMERGENCY_STOP
StartSetBlockedOnPause(action) == action = "PAUSE"

\* mutant: startSet goes on whatever the recommendation
StartSetNeverBlocked(action) == FALSE

\* startSet refuses only on EMERGENCY_STOP
StartSetBlocked(action) == action = "EMERGENCY_STOP"

getNextPhase(currentPhase) ==
    IF PhaseIndex(currentPhase) < Len(Phases)
    THEN Phases[PhaseIndex(currentPhase) + 1] ELSE "NONE"

canProgressToPhase(nextPhase, s) ==
    CASE nextPhase = "DESENSITIZATION" -> s.currentSUD > 0
      [] nextPhase = "INSTALLATION"    -> s.currentSUD <= 2
      [] nextPhase = "BODY_SCAN"       -> s.currentVOC >= 6
      [] OTHER -> TRUE

-----------------------------------------------------------------------------
(* SessionService handlers, each one service call *)

createSession(u, sud, voc) ==
    /\ LET id == Len(sessions) + 1
           existingActiveSession ==
               \E i \in DOMAIN sessions :
                   sessions[i].userId = u /\ sessions[i].state \in ActiveStates
       IN  IF ~ValidSUD(sud) \/ ~ValidVOC(voc) \/ existingActiveSession
           THEN /\ last' = Result("create", 0, FALSE, "NONE")
                /\ UNCHANGED <<sessions, activeSessions>>
           ELSE /\ sessions' = Append(sessions, NewSession(u, sud, voc))
                /\ activeSessions' = [activeSessions EXCEPT ![id] = NewMetrics(sud)]
                /\ last' = Result("create", id, TRUE, "NONE")
    /\ UNCHANGED <<sets, checks, profile, clock, calls>>

\* tdz: `session` is read inside its own initializer (line 203); a build that
\* keeps `const` throws a ReferenceError there, a build that lowers it to
\* `var` reads undefined and goes on.
startSession(sid, readOk, writeOk, tdz) ==
    /\ Exists(sid)
    /\ LET a == assessCurrentState(sid, readOk, writeOk)
       IN  /\ checks' = [checks EXCEPT ![sid] = recordSafetyCheck(@, a, "AUTOMATIC")]
           /\ IF StartBlocked(a.action) \/ tdz
              THEN /\ last' = Result("start", sid, FALSE, a.action)
                   /\ UNCHANGED sessions
              ELSE /\ sessions' = [sessions EXCEPT ![sid].state = "IN_PROGRESS",
                                                   ![sid].startTime = clock]
                   /\ last' = Result("start", sid, TRUE, a.action)
    /\ UNCHANGED <<sets, activeSessions, profile, clock, calls>>

\* mutant: pause runs the manual safety check that endSet and emergencyStop
\* run after their update
pauseSessionChecked(sid, tdz) ==
    /\ Exists(sid)
    /\ IF tdz
       THEN /\ last' = Result("pause", sid, FALSE, "NONE")
            /\ UNCHANGED <<sessions, checks>>
       ELSE /\ sessions' = [sessions EXCEPT ![sid].state = "PAUSED"]
            /\ checks' = [checks EXCEPT ![sid] =
                            recordSafetyCheck(@, assessCurrentState(sid, TRUE, TRUE), "MANUAL")]
            /\ last' = Result("pause", sid, TRUE, "NONE")
    /\ UNCHANGED <<sets, activeSessions, profile, clock, calls>>

\* same read of `session` in its own initializer (line 456)
pauseSession(sid, tdz) ==
    /\ Exists(sid)
    /\ IF tdz
       THEN /\ last' = Result("pause", sid, FALSE, "NONE")
            /\ UNCHANGED sessions
       ELSE /\ sessions' = [sessions EXCEPT ![sid].state = "PAUSED"]
            /\ last' = Result("pause", sid, TRUE, "NONE")
    /\ UNCHANGED <<sets, checks, activeSessions, profile, clock, calls>>

resumeSession(sid, readOk, writeOk) ==
    /\ Exists(sid)
    /\ LET a == assessCurrentState(sid, readOk, writeOk)
       IN  /\ checks' = [checks EXCEPT ![sid] = recordSafetyCheck(@, a, "AUTOMATIC")]
           /\ IF ResumeBlocked(a.action)
              THEN /\ last' = Result("resume", sid, FALSE, a.action)
                   /\ UNCHANGED sessions
              ELSE /\ sessions' = [sessions EXCEPT ![sid].state = "IN_PROGRESS"]
                   /\ last' = Result("resume", sid, TRUE, a.action)
    /\ UNCHANGED <<sets, activeSessions, profile, clock, calls>>

progressToNextPhase(sid) ==
    /\ Exists(sid)
    /\ LET s == sessions[sid]
           nextPhase == getNextPhase(s.phase)
       IN  IF nextPhase = "NONE" \/ ~canProgressToPhase(nextPhase, s)
           THEN /\ last' = Result("progress", sid, FALSE, "NONE")
                /\ UNCHANGED <<sessions, activeSessions>>
           ELSE /\ sessions' = [sessions EXCEPT
                        ![sid].phase = nextPhase,
                        ![sid].phaseData = [s.phaseData EXCEPT ![s.phase] = s.currentSetNumber],
                        ![sid].currentSetNumber = 0]
                /\ activeSessions' =
                        IF activeSessions[sid] # NoMetrics
                        THEN [activeSessions EXCEPT ![sid].phase = nextPhase,
                                                    ![sid].currentSet = 0]
                        ELSE activeSessions
                /\ last' = Result("progress", sid, TRUE, "NONE")
    /\ UNCHANGED <<sets, checks, profile, clock, calls>>

startSet(sid, readOk, writeOk) ==
    /\ Exists(sid)
    /\ LET s == sessions[sid]
           a == assessCurrentState(sid, readOk, writeOk)
           setNumber == s.currentSetNumber + 1
       IN  IF s.state # "IN_PROGRESS"
           THEN /\ last' = Result("startSet", sid, FALSE, "NONE")
                /\ UNCHANGED <<sessions, sets, checks, activeSessions>>
           ELSE /\ checks' = [checks EXCEPT ![sid] = recordSafetyCheck(@, a, "AUTOMATIC")]
                /\ IF StartSetBlocked(a.action)
                   THEN /\ last' = Result("startSet", sid, FALSE, a.action)
                        /\ UNCHANGED <<sessions, sets, activeSessions>>
                   ELSE /\ sets' = [sets EXCEPT ![sid] = Append(@, NewSet(setNumber))]
                        /\ sessions' = [sessions EXCEPT ![sid].currentSetNumber = setNumber]
                        /\ activeSessions' =
                                IF activeSessions[sid] # NoMetrics
                                THEN [activeSessions EXCEPT ![sid].currentSet = setNumber]
                                ELSE activeSessions
                        /\ last' = Result("startSet", sid, TRUE, a.action)
    /\ UNCHANGED <<profile, clock, calls>>

\* the manual check of endSet and emergencyStop: assessCurrentState on the
\* rows as just written, then updateMany sets checkType MANUAL on the new row
triggerManualCheck(sid, row, sessSets, readOk, writeOk) ==
    LET a == Assessment(row, sessSets, checks[sid], profile[row.userId], clock,
                        readOk, writeOk)
    IN  [checks EXCEPT ![sid] = recordSafetyCheck(@, a, "MANUAL")]

endSet(sid, sud, voc, report, readOk, writeOk) ==
    /\ Exists(sid)
    /\ LET s == sessions[sid]
       IN  IF ActiveSetRows(sid, s.currentSetNumber) = {}
              \/ ~ValidSUD(sud) \/ FeedbackVOCRejected(voc)
           THEN /\ last' = Result("endSet", sid, FALSE, "NONE")
                /\ UNCHANGED <<sessions, sets, checks, activeSessions>>
           ELSE \E i \in ActiveSetRows(sid, s.currentSetNumber) :
                LET row == [s EXCEPT !.currentSUD = sud,
                                     !.currentVOC = OrElse(voc, s.currentVOC)]
                    sessSets == [sets[sid] EXCEPT ![i].open = FALSE,
                                                  ![i].sud = sud, ![i].voc = voc]
                IN  /\ sets' = [sets EXCEPT ![sid] = sessSets]
                    /\ sessions' = [sessions EXCEPT ![sid] = row]
                    /\ activeSessions' =
                            IF activeSessions[sid] # NoMetrics
                            THEN [activeSessions EXCEPT ![sid].sudProgress =
                                        Append(@, <<s.currentSetNumber, sud>>)]
                            ELSE activeSessions
                    /\ checks' = IF report
                                 THEN triggerManualCheck(sid, row, sessSets, readOk, writeOk)
                                 ELSE checks
                    /\ last' = Result("endSet", sid, TRUE, "NONE")
    /\ UNCHANGED <<profile, clock, calls>>

\* `currentSUD && currentSUD <= 2 && currentVOC && currentVOC >= 6`
shouldResolve(s) ==
    Truthy(s.currentSUD) /\ s.currentSUD <= 2 /\ Truthy(s.currentVOC) /\ s.currentVOC >= 6

completeSession(sid) ==
    /\ Exists(sid)
    /\ LET s == sessions[sid]
       IN  sessions' = [sessions EXCEPT
                           ![sid].state = "COMPLETED",
                           ![sid].finalSUD = s.currentSUD,
                           ![sid].finalVOC = s.currentVOC,
                           ![sid].isResolved = IF shouldResolve(s) THEN TRUE ELSE @]
    /\ activeSessions' = [activeSessions EXCEPT ![sid] = NoMetrics]
    /\ last' = Result("complete", sid, TRUE, "NONE")
    /\ UNCHANGED <<sets, checks, profile, clock, calls>>

emergencyStop(sid, readOk, writeOk) ==
    /\ Exists(sid)
    /\ LET row == [sessions[sid] EXCEPT !.state = "EMERGENCY_STOPPED"]
       IN  /\ sessions' = [sessions EXCEPT ![sid] = row]
           /\ checks' = triggerManualCheck(sid, row, sets[sid], readOk, writeOk)
    /\ activeSessions' = [activeSessions EXCEPT ![sid] = NoMetrics]
    /\ last' = Result("emergencyStop", sid, TRUE, "NONE")
    /\ UNCHANGED <<sets, profile, clock, calls>>

\* PUT /:id/sets/:setId ; the set row is addressed by id alone
completeSet(sid, owner, i, sud, voc) ==
    /\ Exists(sid)
    /\ Exists(owner)
    /\ i \in 1..Len(sets[owner])
    /\ LET closed == [sets EXCEPT ![owner][i].open = FALSE,
                                  ![owner][i].sud = NULL, ![owner][i].voc = NULL]
       IN  sets' = closed
    /\ sessions' = IF sud # NULL \/ voc # NULL
                   THEN [sessions EXCEPT
                            ![sid].currentSUD = IF sud # NULL THEN sud ELSE @,
                            ![sid].currentVOC = IF voc # NULL THEN voc ELSE @]
                   ELSE sessions
    /\ last' = Result("completeSet", sid, TRUE, "NONE")
    /\ UNCHANGED <<checks, activeSessions, profile, clock, calls>>

\* PUT /:id/phase ; phaseData || null
updateSessionPhase(sid, phase) ==
    /\ Exists(sid)
    /\ IF phase \notin PhaseSet
       THEN /\ last' = Result("updatePhase", sid, FALSE, "NONE")
            /\ UNCHANGED <<sessions, activeSessions>>
       ELSE /\ sessions' = [sessions EXCEPT ![sid].phase = phase,
                                            ![sid].phaseData = EmptyPhaseData]
            /\ activeSessions' =
                    IF activeSessions[sid] # NoMetrics
                    THEN [activeSessions EXCEPT ![sid].phase = phase]
                    ELSE activeSessions
            /\ last' = Result("updatePhase", sid, TRUE, "NONE")
    /\ UNCHANGED <<sets, checks, profile, clock, calls>>

-----------------------------------------------------------------------------
(* SafetyProtocolService entry points reached from the safety routes *)

getAssessment(sid, readOk, writeOk) ==
    /\ Exists(sid)
    /\ LET a == assessCurrentState(sid, readOk, writeOk)
       IN  /\ checks' = [checks EXCEPT ![sid] = recordSafetyCheck(@, a, "AUTOMATIC")]
           /\ last' = Result("assess", sid, TRUE, a.action)
    /\ UNCHANGED <<sessions, sets, activeSessions, profile, clock, calls>>

updateSafetyMeasurements(sid) ==
    /\ Exists(sid)
    /\ checks' = [checks EXCEPT ![sid] =
                    Append(@, [checkType |-> "AUTOMATIC", action |-> "CONTINUE",
                               riskLevel |-> "NONE"])]
    /\ last' = Result("updateMeasurements", sid, TRUE, "NONE")
    /\ UNCHANGED <<sessions, sets, activeSessions, profile, clock, calls>>

triggerEmergencyProtocol(sid) ==
    /\ Exists(sid)
    /\ checks' = [checks EXCEPT ![sid] =
                    Append(@, [checkType |-> "EMERGENCY", action |-> "EMERGENCY_STOP",
                               riskLevel |-> "NONE"])]
    /\ sessions' = [sessions EXCEPT ![sid].state = "EMERGENCY_STOPPED"]
    /\ last' = Result("emergencyProtocol", sid, TRUE, "NONE")
    /\ UNCHANGED <<sets, activeSessions, profile, clock, calls>>

\* one more call within the run
Budget == steps < MaxSteps /\ steps' = steps + 1

\* time passes
Tick ==
    /\ Budget
    /\ clock' = clock + TickMinutes
    /\ last' = Result("tick", 0, TRUE, "NONE")
    /\ UNCHANGED <<sessions, sets, checks, activeSessions, profile, calls>>

-----------------------------------------------------------------------------
(* Spec: one call at a time *)

Init ==
    /\ sessions = <<>>
    /\ sets = [i \in SessionIds |-> <<>>]
    /\ checks = [i \in SessionIds |-> <<>>]
    /\ activeSessions = [i \in SessionIds |-> NoMetrics]
    /\ profile \in [Users -> ProfileLevels]
    /\ clock = 0
    /\ last = Result("init", 0, TRUE, "NONE")
    /\ steps = 0
    /\ calls = <<>>

\* outcomes of the two store operations of an assessment: when the snapshot
\* read fails no insert is attempted
StoreOutcomes == {<<TRUE, TRUE>>, <<TRUE, FALSE>>, <<FALSE, FALSE>>}

Create == /\ Budget
          /\ Len(sessions) < MaxSessions
          /\ \E u \in Users, sud \in CreateSUDs, voc \in CreateVOCs : createSession(u, sud, voc)
Start == Budget /\ \E sid \in DOMAIN sessions, o \in StoreOutcomes, tdz \in BOOLEAN :
            startSession(sid, o[1], o[2], tdz)
Pause == Budget /\ \E sid \in DOMAIN sessions, tdz \in BOOLEAN : pauseSession(sid, tdz)
Resume == Budget /\ \E sid \in DOMAIN sessions, o \in StoreOutcomes : resumeSession(sid, o[1], o[2])
Progress == Budget /\ \E sid \in DOMAIN sessions : progressToNextPhase(sid)
StartSet == Budget /\ \E sid \in DOMAIN sessions, o \in StoreOutcomes : startSet(sid, o[1], o[2])
EndSet == Budget /\ \E sid \in DOMAIN sessions, sud \in FeedbackSUDs, voc \in FeedbackVOCs,
             report \in BOOLEAN :
             \E o \in IF report THEN StoreOutcomes ELSE {<<TRUE, TRUE>>} :
                endSet(sid, sud, voc, report, o[1], o[2])
Complete == Budget /\ \E sid \in DOMAIN sessions : completeSession(sid)
EmergencyStop == Budget /\ \E sid \in DOMAIN sessions, o \in StoreOutcomes :
                    emergencyStop(sid, o[1], o[2])
CompleteSet == Budget /\ \E sid \in DOMAIN sessions, owner \in DOMAIN sessions :
                  \E i \in 1..Len(sets[owner]), sud \in CompleteSUDs, voc \in CompleteVOCs :
                     completeSet(sid, owner, i, sud, voc)
UpdatePhase == Budget /\ \E sid \in DOMAIN sessions, phase \in PhaseInputs :
                  updateSessionPhase(sid, phase)
GetAssessment == Budget /\ \E sid \in DOMAIN sessions, o \in StoreOutcomes :
                    getAssessment(sid, o[1], o[2])
UpdateMeasurements == Budget /\ \E sid \in DOMAIN sessions : updateSafetyMeasurements(sid)
EmergencyProtocol == Budget /\ \E sid \in DOMAIN sessions : triggerEmergencyProtocol(sid)

Next ==
    \/ Create \/ Start \/ Pause \/ Resume \/ Progress \/ StartSet \/ EndSet
    \/ Complete \/ EmergencyStop \/ CompleteSet \/ UpdatePhase
    \/ GetAssessment \/ UpdateMeasurements \/ EmergencyProtocol \/ Tick

Spec == Init /\ [][Next]_vars

-----------------------------------------------------------------------------
(* SpecAsync: two calls in flight.  Each action below is the store operation *)
(* a handler awaits, together with the handler code that runs until its     *)
(* next await.  Store operations succeed; the calls work on session 1.      *)

MaxSetup == 3        \* calls served one at a time before the two concurrent ones

AsyncOps == <<"create", "start", "pause", "resume", "complete", "emergencyStop",
              "progress", "startSet", "endSet">>

AsyncSUD == 2        \* feedback.sud of the concurrent endSet
AsyncCreateSUD == 5  \* initialSUD of the concurrent createSession
AsyncCreateVOC == 3  \* initialVOC of the concurrent createSession

NoSnap == NewSession(0, NULL, NULL)

NoAssessment ==
    [riskLevel |-> "NONE", action |-> "NONE", intervention |-> NoIntervention,
     indicators |-> <<>>, recorded |-> FALSE]

FirstStep(op) ==
    CASE op = "create"        -> "cr_check"
      [] op = "start"         -> "assess_read"
      [] op = "pause"         -> "pa_update"
      [] op = "resume"        -> "assess_read"
      [] op = "complete"      -> "co_read"
      [] op = "emergencyStop" -> "es_read"
      [] op = "progress"      -> "pr_read"
      [] op = "startSet"      -> "ss_read"
      [] op = "endSet"        -> "en_read"

NewCall(op) ==
    [op |-> op, sid |-> IF op = "create" THEN 0 ELSE 1, pc |-> FirstStep(op),
     ok |-> FALSE, snap |-> NoSnap, act |-> NoAssessment, row |-> 0, flag |-> FALSE]

CallIds == DOMAIN calls

At(c, pc) == c \in CallIds /\ calls[c].pc = pc

InFlight(c) == calls[c].pc # "done" /\ calls[c].pc # FirstStep(calls[c].op)

Goto(c, pc) == calls' = [calls EXCEPT ![c].pc = pc]

Finish(c, ok) ==
    /\ calls' = [calls EXCEPT ![c].pc = "done", ![c].ok = ok]
    /\ last' = Result(calls[c].op, calls[c].sid, ok, calls[c].act.action)

\* the two requests arrive together
Launch ==
    /\ calls = <<>>
    /\ \E i \in 1..Len(AsyncOps), j \in 1..Len(AsyncOps) :
          /\ i <= j
          /\ (AsyncOps[i] # "create" \/ AsyncOps[j] # "create") => Exists(1)
          /\ calls' = <<NewCall(AsyncOps[i]), NewCall(AsyncOps[j])>>
    /\ UNCHANGED <<sessions, sets, checks, activeSessions, profile, clock, last, steps>>

\* assessCurrentState: the snapshot query and the pure pipeline
AssessRead(c) ==
    /\ At(c, "assess_read")
    /\ calls' = [calls EXCEPT ![c].act = assessCurrentState(calls[c].sid, TRUE, TRUE),
                              ![c].pc = "assess_record"]
    /\ UNCHANGED <<sessions, sets, checks, activeSessions, profile, clock, last, steps>>

\* recordSafetyCheck, then the caller's decision on the recommendation
AssessRecord(c) ==
    /\ At(c, "assess_record")
    /\ LET call == calls[c]
           sid == call.sid
           recorded == [calls EXCEPT ![c].row = Len(checks[sid]) + 1]
       IN  /\ checks' = [checks EXCEPT ![sid] = Append(@, CheckRow("AUTOMATIC", call.act))]
           /\ CASE call.op = "start" ->
                     \E tdz \in BOOLEAN :
                        IF StartBlocked(call.act.action) \/ tdz
                        THEN Finish(c, FALSE)
                        ELSE Goto(c, "st_update") /\ UNCHANGED last
                [] call.op = "resume" ->
                     IF ResumeBlocked(call.act.action)
                     THEN Finish(c, FALSE)
                     ELSE Goto(c, "rs_read") /\ UNCHANGED last
                [] call.op = "startSet" ->
                     IF StartSetBlocked(call.act.action)
                     THEN Finish(c, FALSE)
                     ELSE Goto(c, "ss_create") /\ UNCHANGED last
                [] OTHER ->
                     /\ calls' = [recorded EXCEPT ![c].pc = "mark_manual"]
                     /\ UNCHANGED last
    /\ UNCHANGED <<sessions, sets, activeSessions, profile, clock, steps>>

\* triggerManualCheck: updateMany sets checkType MANUAL on the recorded row
MarkManual(c) ==
    /\ At(c, "mark_manual")
    /\ checks' = [checks EXCEPT ![calls[c].sid][calls[c].row].checkType = "MANUAL"]
    /\ Finish(c, TRUE)
    /\ UNCHANGED <<sessions, sets, activeSessions, profile, clock, steps>>

StartUpdate(c) ==
    /\ At(c, "st_update")
    /\ sessions' = [sessions EXCEPT ![calls[c].sid].state = "IN_PROGRESS",
                                    ![calls[c].sid].startTime = clock]
    /\ Finish(c, TRUE)
    /\ UNCHANGED <<sets, checks, activeSessions, profile, clock, steps>>

PauseUpdate(c) ==
    /\ At(c, "pa_update")
    /\ \E tdz \in BOOLEAN :
          IF tdz
          THEN Finish(c, FALSE) /\ UNCHANGED sessions
          ELSE /\ sessions' = [sessions EXCEPT ![calls[c].sid].state = "PAUSED"]
               /\ Finish(c, TRUE)
    /\ UNCHANGED <<sets, checks, activeSessions, profile, clock, steps>>

\* resumeSession: findUnique of sessionData
ResumeRead(c) ==
    /\ At(c, "rs_read")
    /\ Goto(c, "rs_update")
    /\ UNCHANGED <<sessions, sets, checks, activeSessions, profile, clock, last, steps>>

ResumeUpdate(c) ==
    /\ At(c, "rs_update")
    /\ sessions' = [sessions EXCEPT ![calls[c].sid].state = "IN_PROGRESS"]
    /\ Finish(c, TRUE)
    /\ UNCHANGED <<sets, checks, activeSessions, profile, clock, steps>>

CompleteRead(c) ==
    /\ At(c, "co_read")
    /\ calls' = [calls EXCEPT ![c].snap = sessions[calls[c].sid], ![c].pc = "co_update"]
    /\ UNCHANGED <<sessions, sets, checks, activeSessions, profile, clock, last, steps>>

\* with the targetMemory update that follows it: no other call reads or
\* writes that row
CompleteUpdate(c) ==
    /\ At(c, "co_update")
    /\ LET sid == calls[c].sid
           s == calls[c].snap
       IN  /\ sessions' = [sessions EXCEPT
                  ![sid].state = "COMPLETED",
                  ![sid].finalSUD = s.currentSUD,
                  ![sid].finalVOC = s.currentVOC,
                  ![sid].isResolved = IF shouldResolve(s) THEN TRUE ELSE @]
           /\ activeSessions' = [activeSessions EXCEPT ![sid] = NoMetrics]
    /\ Finish(c, TRUE)
    /\ UNCHANGED <<sets, checks, profile, clock, steps>>

\* emergencyStop: findUnique of sessionData
EmergencyRead(c) ==
    /\ At(c, "es_read")
    /\ Goto(c, "es_update")
    /\ UNCHANGED <<sessions, sets, checks, activeSessions, profile, clock, last, steps>>

\* flag: the other call was between its first and its last step at this write
EmergencyUpdate(c) ==
    /\ At(c, "es_update")
    /\ sessions' = [sessions EXCEPT ![calls[c].sid].state = "EMERGENCY_STOPPED"]
    /\ activeSessions' = [activeSessions EXCEPT ![calls[c].sid] = NoMetrics]
    /\ calls' = [calls EXCEPT ![c].pc = "assess_read",
                              ![c].flag = \E d \in CallIds \ {c} : InFlight(d)]
    /\ UNCHANGED <<sets, checks, profile, clock, last, steps>>

ProgressRead(c) ==
    /\ At(c, "pr_read")
    /\ LET s == sessions[calls[c].sid]
           nextPhase == getNextPhase(s.phase)
       IN  IF nextPhase = "NONE" \/ ~canProgressToPhase(nextPhase, s)
           THEN Finish(c, FALSE)
           ELSE /\ calls' = [calls EXCEPT ![c].snap = s, ![c].pc = "pr_update"]
                /\ UNCHANGED last
    /\ UNCHANGED <<sessions, sets, checks, activeSessions, profile, clock, steps>>

ProgressUpdate(c) ==
    /\ At(c, "pr_update")
    /\ LET sid == calls[c].sid
           s == calls[c].snap
           nextPhase == getNextPhase(s.phase)
       IN  /\ sessions' = [sessions EXCEPT
                  ![sid].phase = nextPhase,
                  ![sid].phaseData = [s.phaseData EXCEPT ![s.phase] = s.currentSetNumber],
                  ![sid].currentSetNumber = 0]
           /\ activeSessions' =
                  IF activeSessions[sid] # NoMetrics
                  THEN [activeSessions EXCEPT ![sid].phase = nextPhase, ![sid].currentSet = 0]
                  ELSE activeSessions
    /\ Finish(c, TRUE)
    /\ UNCHANGED <<sets, checks, profile, clock, steps>>

StartSetRead(c) ==
    /\ At(c, "ss_read")
    /\ LET s == sessions[calls[c].sid]
       IN  IF s.state # "IN_PROGRESS"
           THEN Finish(c, FALSE)
           ELSE /\ calls' = [calls EXCEPT ![c].snap = s, ![c].pc = "assess_read"]
                /\ UNCHANGED last
    /\ UNCHANGED <<sessions, sets, checks, activeSessions, profile, clock, steps>>

SetCreate(c) ==
    /\ At(c, "ss_create")
    /\ sets' = [sets EXCEPT ![calls[c].sid] =
                    Append(@, NewSet(calls[c].snap.currentSetNumber + 1))]
    /\ Goto(c, "ss_update")
    /\ UNCHANGED <<sessions, checks, activeSessions, profile, clock, last, steps>>

StartSetUpdate(c) ==
    /\ At(c, "ss_update")
    /\ LET sid == calls[c].sid
           setNumber == calls[c].snap.currentSetNumber + 1
       IN  /\ sessions' = [sessions EXCEPT ![sid].currentSetNumber = setNumber]
           /\ activeSessions' =
                  IF activeSessions[sid] # NoMetrics
                  THEN [activeSessions EXCEPT ![sid].currentSet = setNumber]
                  ELSE activeSessions
    /\ Finish(c, TRUE)
    /\ UNCHANGED <<sets, checks, profile, clock, steps>>

EndSetRead(c) ==
    /\ At(c, "en_read")
    /\ calls' = [calls EXCEPT ![c].snap = sessions[calls[c].sid], ![c].pc = "en_find"]
    /\ UNCHANGED <<sessions, sets, checks, activeSessions, profile, clock, last, steps>>

EndSetFind(c) ==
    /\ At(c, "en_find")
    /\ LET found == ActiveSetRows(calls[c].sid, calls[c].snap.currentSetNumber)
       IN  IF found = {} \/ ~ValidSUD(AsyncSUD)
           THEN Finish(c, FALSE)
           ELSE /\ \E i \in found :
                      calls' = [calls EXCEPT ![c].row = i, ![c].pc = "en_update_set"]
                /\ UNCHANGED last
    /\ UNCHANGED <<sessions, sets, checks, activeSessions, profile, clock, steps>>

EndSetUpdateSet(c) ==
    /\ At(c, "en_update_set")
    /\ sets' = [sets EXCEPT ![calls[c].sid][calls[c].row].open = FALSE,
                            ![calls[c].sid][calls[c].row].sud = AsyncSUD]
    /\ Goto(c, "en_update_session")
    /\ UNCHANGED <<sessions, checks, activeSessions, profile, clock, last, steps>>

EndSetUpdateSession(c) ==
    /\ At(c, "en_update_session")
    /\ LET sid == calls[c].sid
           s == calls[c].snap
       IN  /\ sessions' = [sessions EXCEPT ![sid].currentSUD = AsyncSUD,
                                           ![sid].currentVOC = s.currentVOC]
           /\ activeSessions' =
                  IF activeSessions[sid] # NoMetrics
                  THEN [activeSessions EXCEPT ![sid].sudProgress =
                            Append(@, <<s.currentSetNumber, AsyncSUD>>)]
                  ELSE activeSessions
    /\ Finish(c, TRUE)
    /\ UNCHANGED <<sets, checks, profile, clock, steps>>

\* createSession: the findFirst for an active session of the user
CreateCheck(c) ==
    /\ At(c, "cr_check")
    /\ calls' = [calls EXCEPT
          ![c].flag = \E i \in DOMAIN sessions :
                         sessions[i].userId = 1 /\ sessions[i].state \in ActiveStates,
          ![c].pc = "cr_insert"]
    /\ UNCHANGED <<sessions, sets, checks, activeSessions, profile, clock, last, steps>>

CreateInsert(c) ==
    /\ At(c, "cr_insert")
    /\ IF calls[c].flag
       THEN /\ Finish(c, FALSE)
            /\ UNCHANGED <<sessions, activeSessions>>
       ELSE /\ sessions' = Append(sessions, NewSession(1, AsyncCreateSUD, AsyncCreateVOC))
            /\ activeSessions' = [activeSessions EXCEPT
                                     ![Len(sessions) + 1] = NewMetrics(AsyncCreateSUD)]
            /\ calls' = [calls EXCEPT ![c].pc = "done", ![c].ok = TRUE,
                                      ![c].sid = Len(sessions) + 1]
            /\ last' = Result("create", Len(sessions) + 1, TRUE, "NONE")
    /\ UNCHANGED <<sets, checks, profile, clock, steps>>

\* the calls served before the concurrent pair arrives
Setup == calls = <<>> /\ steps < MaxSetup

SetupCreate == Setup /\ sessions = <<>> /\ Create

SetupStart == Setup /\ Start

SetupPause == Setup /\ Pause

SetupStartSet == Setup /\ StartSet

SetupEndSet == Setup /\ EndSet

AsyncAssessRead == \E c \in CallIds : AssessRead(c)

AsyncAssessRecord == \E c \in CallIds : AssessRecord(c)

AsyncMarkManual == \E c \in CallIds : MarkManual(c)

AsyncStartUpdate == \E c \in CallIds : StartUpdate(c)

AsyncPauseUpdate == \E c \in CallIds : PauseUpdate(c)

AsyncResumeRead == \E c \in CallIds : ResumeRead(c)

AsyncResumeUpdate == \E c \in CallIds : ResumeUpdate(c)

AsyncCompleteRead == \E c \in CallIds : CompleteRead(c)

AsyncCompleteUpdate == \E c \in CallIds : CompleteUpdate(c)

AsyncEmergencyRead == \E c \in CallIds : EmergencyRead(c)

AsyncEmergencyUpdate == \E c \in CallIds : EmergencyUpdate(c)

AsyncProgressRead == \E c \in CallIds : ProgressRead(c)

AsyncProgressUpdate == \E c \in CallIds : ProgressUpdate(c)

AsyncStartSetRead == \E c \in CallIds : StartSetRead(c)

AsyncSetCreate == \E c \in CallIds : SetCreate(c)

AsyncStartSetUpdate == \E c \in CallIds : StartSetUpdate(c)

AsyncEndSetRead == \E c \in CallIds : EndSetRead(c)

AsyncEndSetFind == \E c \in CallIds : EndSetFind(c)

AsyncEndSetUpdateSet == \E c \in CallIds : EndSetUpdateSet(c)

AsyncEndSetUpdateSession == \E c \in CallIds : EndSetUpdateSession(c)

AsyncCreateCheck == \E c \in CallIds : CreateCheck(c)

AsyncCreateInsert == \E c \in CallIds : CreateInsert(c)

NextAsync ==
    \/ SetupCreate \/ SetupStart \/ SetupPause \/ SetupStartSet \/ SetupEndSet
    \/ Launch
    \/ AsyncAssessRead \/ AsyncAssessRecord \/ AsyncMarkManual \/ AsyncStartUpdate
    \/ AsyncPauseUpdate \/ AsyncResumeRead \/ AsyncResumeUpdate \/ AsyncCompleteRead
    \/ AsyncCompleteUpdate \/ AsyncEmergencyRead \/ AsyncEmergencyUpdate \/ AsyncProgressRead
    \/ AsyncProgressUpdate \/ AsyncStartSetRead \/ AsyncSetCreate \/ AsyncStartSetUpdate
    \/ AsyncEndSetRead \/ AsyncEndSetFind \/ AsyncEndSetUpdateSet \/ AsyncEndSetUpdateSession
    \/ AsyncCreateCheck \/ AsyncCreateInsert

SpecAsync == Init /\ [][NextAsync]_vars

-----------------------------------------------------------------------------
(* SpecAssess: one assessment of one session.  The snapshot that            *)
(* assessCurrentState reads (session row, whether a set exists, recent      *)
(* safety checks, profile risk level, elapsed time) is drawn in the initial *)
(* state; the action applies the assessment and keeps what it returned.     *)

MaxRecent == 4        \* safety_checks rows in the drawn history

AssessInitialSUDs == {0, 2, 5, 8, 10}
AssessCurrentSUDs == 0..10
AssessClocks      == {0, 121, 181}
AssessProfiles    == {"LOW", "HIGH", "CRITICAL"}

\* rows as updateSafetyMeasurements and triggerEmergencyProtocol insert them
HistoryRows ==
    {[checkType |-> "AUTOMATIC", action |-> "CONTINUE", riskLevel |-> "NONE"],
     [checkType |-> "EMERGENCY", action |-> "EMERGENCY_STOP", riskLevel |-> "NONE"]}

Histories == UNION {[1..n -> HistoryRows] : n \in 0..MaxRecent}

InitAssess ==
    /\ \E initial \in AssessInitialSUDs, current \in AssessCurrentSUDs,
          started \in BOOLEAN :
          sessions = <<[NewSession(1, initial, 3) EXCEPT
                           !.state = "IN_PROGRESS",
                           !.currentSUD = current,
                           !.startTime = IF started THEN 0 ELSE NULL]>>
    /\ clock \in AssessClocks
    /\ sessions[1].startTime = NULL => clock = 0
    /\ \E hasSet \in BOOLEAN :
          sets = [i \in SessionIds |-> IF i = 1 /\ hasSet THEN <<NewSet(1)>> ELSE <<>>]
    /\ \E history \in Histories :
          checks = [i \in SessionIds |-> IF i = 1 THEN history ELSE <<>>]
    /\ activeSessions = [i \in SessionIds |-> NoMetrics]
    /\ profile \in [Users -> AssessProfiles]
    /\ last = Result("init", 0, TRUE, "NONE")
    /\ steps = 0
    /\ calls = <<>>

\* GET /assessment/:sessionId, with the assessment it responds with
AssessOnce ==
    /\ calls = <<>>
    /\ \E o \in StoreOutcomes :
          LET a == assessCurrentState(1, o[1], o[2])
          IN  /\ calls' = <<[op |-> "assess", readOk |-> o[1], writeOk |-> o[2], act |-> a]>>
              /\ checks' = [checks EXCEPT ![1] = recordSafetyCheck(@, a, "AUTOMATIC")]
              /\ last' = Result("assess", 1, TRUE, a.action)
    /\ steps' = steps + 1
    /\ UNCHANGED <<sessions, sets, activeSessions, profile, clock>>

SafetyActions ==
    {"CONTINUE", "GROUNDING", "PAUSE", "EMERGENCY_STOP", "PROFESSIONAL_REFERRAL"}

\* createIntervention applied to a SafetyAction and the indicators of the
\* snapshot
InterveneOnce ==
    /\ calls = <<>>
    /\ \E action \in SafetyActions :
          LET indicators == analyzeSession(sessions[1], sets[1], checks[1],
                                           profile[sessions[1].userId], clock)
          IN  calls' = <<[op |-> "intervene", readOk |-> TRUE, writeOk |-> TRUE,
                          act |-> [riskLevel |-> "NONE", action |-> action,
                                   intervention |-> createIntervention(action, indicators),
                                   indicators |-> indicators, recorded |-> FALSE]]>>
    /\ steps' = steps + 1
    /\ UNCHANGED <<sessions, sets, checks, activeSessions, profile, clock, last>>

NextAssess == AssessOnce \/ InterveneOnce

SpecAssess == InitAssess /\ [][NextAssess]_vars

-----------------------------------------------------------------------------
(* SpecRisk: calculateRiskLevel and determineAction on a drawn list of      *)
(* indicators.                                                              *)

MaxIndicators == 4    \* indicators in the drawn list

Severities == {"low", "medium", "high", "critical"}

IndicatorLists ==
    UNION {[1..n -> {Indicator("overwhelm", sev, "", NULL) : sev \in Severities}] :
              n \in 0..MaxIndicators}

InitRisk ==
    /\ sessions = <<>>
    /\ sets = [i \in SessionIds |-> <<>>]
    /\ checks = [i \in SessionIds |-> <<>>]
    /\ activeSessions = [i \in SessionIds |-> NoMetrics]
    /\ profile \in [Users -> {"LOW"}]
    /\ clock = 0
    /\ last = Result("init", 0, TRUE, "NONE")
    /\ steps = 0
    /\ \E indicators \in IndicatorLists :
          calls = <<[op |-> "input", indicators |-> indicators, riskLevel |-> "NONE",
                     action |-> "NONE"]>>

Aggregate ==
    /\ calls[1].op = "input"
    /\ LET riskLevel == calculateRiskLevel(calls[1].indicators)
       IN  calls' = <<[calls[1] EXCEPT
                          !.op = "aggregate",
                          !.riskLevel = riskLevel,
                          !.action = determineAction(riskLevel, calls[1].indicators)]>>
    /\ UNCHANGED <<sessions, sets, checks, activeSessions, profile, clock, last, steps>>

NextRisk == Aggregate

SpecRisk == InitRisk /\ [][NextRisk]_vars

-----------------------------------------------------------------------------
(* SpecFail: one call of startSet, endSet, completeSession or emergencyStop *)
(* on session 1, in which the store rejects the w-th write of the handler.  *)
(* The handler stops at the rejected write and rethrows; the writes before  *)
(* it stay.  The session is drawn among the rows the calls before can have  *)
(* left; the metrics map is empty, as after a restart.                      *)

InitFail ==
    /\ \E state \in ActiveStates, stage \in {"created", "set_open", "set_closed"},
          sud \in {0, 2, 9}, voc \in {3, 6} :
          /\ stage # "created" => state # "PREPARING"
          /\ stage # "set_closed" => sud = 9 /\ voc = 3
          /\ sessions = <<[NewSession(1, 9, 3) EXCEPT
                              !.state = state,
                              !.currentSUD = sud,
                              !.currentVOC = voc,
                              !.currentSetNumber = IF stage = "created" THEN 0 ELSE 1,
                              !.startTime = IF state = "PREPARING" THEN NULL ELSE 0]>>
          /\ sets = [i \in SessionIds |->
                       CASE i = 1 /\ stage = "set_open" -> <<NewSet(1)>>
                         [] i = 1 /\ stage = "set_closed" ->
                               <<[NewSet(1) EXCEPT !.open = FALSE, !.sud = sud, !.voc = voc]>>
                         [] OTHER -> <<>>]
    /\ checks = [i \in SessionIds |-> <<>>]
    /\ activeSessions = [i \in SessionIds |-> NoMetrics]
    /\ profile \in [Users -> ProfileLevels]
    /\ clock \in {0, TickMinutes}
    /\ last = Result("init", 0, TRUE, "NONE")
    /\ steps = 0
    /\ calls = <<>>

\* startSet: writes are the Set insert (1) and the session update (2)
FailStartSet ==
    /\ calls = <<>>
    /\ LET s == sessions[1]
           a == assessCurrentState(1, TRUE, TRUE)
       IN  IF s.state # "IN_PROGRESS"
           THEN /\ last' = Result("startSet", 1, FALSE, "NONE")
                /\ calls' = <<[op |-> "startSet", w |-> 0]>>
                /\ UNCHANGED <<sets, checks>>
           ELSE /\ checks' = [checks EXCEPT ![1] = recordSafetyCheck(@, a, "AUTOMATIC")]
                /\ last' = Result("startSet", 1, FALSE, a.action)
                /\ IF StartSetBlocked(a.action)
                   THEN /\ calls' = <<[op |-> "startSet", w |-> 0]>>
                        /\ UNCHANGED sets
                   ELSE \E w \in 1..2 :
                           /\ calls' = <<[op |-> "startSet", w |-> w]>>
                           /\ sets' = IF w > 1
                                      THEN [sets EXCEPT ![1] =
                                               Append(@, NewSet(s.currentSetNumber + 1))]
                                      ELSE sets
    /\ steps' = steps + 1
    /\ UNCHANGED <<sessions, activeSessions, profile, clock>>

\* endSet (feedback sud 2, voc 6): writes are the Set update (1), the session
\* update (2) and, when overwhelm or dissociation is reported, the updateMany
\* of triggerManualCheck (3)
FailEndSet ==
    /\ calls = <<>>
    /\ LET s == sessions[1]
           found == ActiveSetRows(1, s.currentSetNumber)
       IN  IF found = {}
           THEN /\ calls' = <<[op |-> "endSet", w |-> 0]>>
                /\ UNCHANGED <<sessions, sets, checks>>
           ELSE \E i \in found, report \in BOOLEAN :
                \E w \in 1..(IF report THEN 3 ELSE 2) :
                LET row == [s EXCEPT !.currentSUD = 2, !.currentVOC = OrElse(6, s.currentVOC)]
                    sessSets == [sets[1] EXCEPT ![i].open = FALSE, ![i].sud = 2, ![i].voc = 6]
                    a == Assessment(row, sessSets, checks[1], profile[row.userId], clock,
                                    TRUE, TRUE)
                IN  /\ calls' = <<[op |-> "endSet", w |-> w]>>
                    /\ sets' = IF w > 1 THEN [sets EXCEPT ![1] = sessSets] ELSE sets
                    /\ sessions' = IF w > 2 THEN [sessions EXCEPT ![1] = row] ELSE sessions
                    /\ checks' = IF w > 2
                                 THEN [checks EXCEPT ![1] = recordSafetyCheck(@, a, "AUTOMATIC")]
                                 ELSE checks
    /\ last' = Result("endSet", 1, FALSE, "NONE")
    /\ steps' = steps + 1
    /\ UNCHANGED <<activeSessions, profile, clock>>

\* completeSession: writes are the session update (1) and, when the target
\* memory is to be marked resolved, the targetMemory update (2)
FailComplete ==
    /\ calls = <<>>
    /\ LET s == sessions[1]
       IN  \E w \in 1..(IF shouldResolve(s) THEN 2 ELSE 1) :
              /\ calls' = <<[op |-> "complete", w |-> w]>>
              /\ sessions' = IF w > 1
                             THEN [sessions EXCEPT ![1].state = "COMPLETED",
                                                   ![1].finalSUD = s.currentSUD,
                                                   ![1].finalVOC = s.currentVOC]
                             ELSE sessions
    /\ last' = Result("complete", 1, FALSE, "NONE")
    /\ steps' = steps + 1
    /\ UNCHANGED <<sets, checks, activeSessions, profile, clock>>

\* emergencyStop: writes are the session update (1) and the updateMany of
\* triggerManualCheck (2)
FailEmergencyStop ==
    /\ calls = <<>>
    /\ \E w \in 1..2 :
          LET row == [sessions[1] EXCEPT !.state = "EMERGENCY_STOPPED"]
              a == Assessment(row, sets[1], checks[1], profile[row.userId], clock,
                              TRUE, TRUE)
          IN  /\ calls' = <<[op |-> "emergencyStop", w |-> w]>>
              /\ sessions' = IF w > 1 THEN [sessions EXCEPT ![1] = row] ELSE sessions
              /\ checks' = IF w > 1
                           THEN [checks EXCEPT ![1] = recordSafetyCheck(@, a, "AUTOMATIC")]
                           ELSE checks
              /\ activeSessions' = IF w > 1
                                   THEN [activeSessions EXCEPT ![1] = NoMetrics]
                                   ELSE activeSessions
    /\ last' = Result("emergencyStop", 1, FALSE, "NONE")
    /\ steps' = steps + 1
    /\ UNCHANGED <<sets, profile, clock>>

NextFail == FailStartSet \/ FailEndSet \/ FailComplete \/ FailEmergencyStop

SpecFail == InitFail /\ [][NextFail]_vars

-----------------------------------------------------------------------------
(* Claims about the session lifecycle, checked under Spec *)

\* the call made by the step was op on session sid
Called(op, sid) == last'.op = op /\ last'.sid = sid /\ steps' = steps + 1

LifecycleCalls == {"start", "pause", "resume", "complete", "emergencyStop",
                   "progress", "startSet", "endSet"}

\* C1: start consults the assessment first; when the recommendation is not
\* CONTINUE it fails and the session row is unchanged; when it is CONTINUE and
\* the session is PREPARING the session becomes IN_PROGRESS with startTime set.
C1_StartContract ==
    [][\A sid \in DOMAIN sessions :
          Called("start", sid) =>
             /\ last'.action # "CONTINUE" =>
                   ~last'.ok /\ sessions'[sid] = sessions[sid]
             /\ (last'.action = "CONTINUE" /\ sessions[sid].state = "PREPARING") =>
                   /\ sessions'[sid].state = "IN_PROGRESS"
                   /\ sessions'[sid].startTime # NULL]_vars

\* C2: once COMPLETED or EMERGENCY_STOPPED, a session keeps that exact state
\* in every later state.
C2_TerminalIrreversible ==
    [][\A sid \in DOMAIN sessions :
          sessions[sid].state \in TerminalStates =>
             sessions'[sid].state = sessions[sid].state]_vars

\* C3: on an EMERGENCY_STOPPED session every further mutating call fails and
\* leaves phase, SUD, VOC, set counter, phaseData and the Sets unchanged.
C3_StoppedRejectsCalls ==
    [][\A sid \in DOMAIN sessions :
          (sessions[sid].state = "EMERGENCY_STOPPED"
             /\ \E op \in LifecycleCalls : Called(op, sid)) =>
             /\ ~last'.ok
             /\ sessions'[sid] = sessions[sid]
             /\ sets'[sid] = sets[sid]]_vars

\* the lifecycle edges of the state machine, each with the call that takes it
DefinedEdge(from, to, op) ==
    \/ from = "PREPARING"   /\ to = "IN_PROGRESS" /\ op = "start"
    \/ from = "IN_PROGRESS" /\ to = "PAUSED"      /\ op = "pause"
    \/ from = "PAUSED"      /\ to = "IN_PROGRESS" /\ op = "resume"
    \/ from \in ActiveStates /\ to = "COMPLETED"  /\ op = "complete"
    \/ from \in ActiveStates /\ to = "EMERGENCY_STOPPED"
         /\ op \in {"emergencyStop", "emergencyProtocol"}

\* C4: every change of lifecycleState follows a defined edge.
C4_DefinedEdgesOnly ==
    [][\A sid \in DOMAIN sessions :
          sessions'[sid].state # sessions[sid].state =>
             DefinedEdge(sessions[sid].state, sessions'[sid].state, last'.op)]_vars

\* C5: emergencyStop on a non-terminal session is never refused, leaves the
\* session EMERGENCY_STOPPED and adds a SafetyCheck row of type emergency.
C5_EmergencyStopRecorded ==
    [][\A sid \in DOMAIN sessions :
          (Called("emergencyStop", sid) /\ sessions[sid].state \in ActiveStates) =>
             /\ last'.ok
             /\ sessions'[sid].state = "EMERGENCY_STOPPED"
             /\ Len(checks'[sid]) = Len(checks[sid]) + 1
             /\ checks'[sid][Len(checks'[sid])].checkType = "EMERGENCY"]_vars

\* the call was refused and changed neither lifecycleState nor the set
\* counter nor the Sets
RefusedUntouched(sid) ==
    /\ ~last'.ok
    /\ sessions'[sid].state = sessions[sid].state
    /\ sessions'[sid].currentSetNumber = sessions[sid].currentSetNumber
    /\ sets'[sid] = sets[sid]

C9_ResumeContract ==
    [][\A sid \in DOMAIN sessions :
          Called("resume", sid) =>
             /\ last'.action = "EMERGENCY_STOP" =>
                   ~last'.ok /\ sessions'[sid].state = sessions[sid].state
             /\ (last'.action # "EMERGENCY_STOP" /\ sessions[sid].state = "PAUSED") =>
                   sessions'[sid].state = "IN_PROGRESS"
             /\ sessions[sid].state # "PAUSED" =>
                   sessions'[sid].state = sessions[sid].state]_vars

\* C10: a session's phase only ever changes to the immediate successor phase.
C10_PhaseSuccessorOnly ==
    [][\A sid \in DOMAIN sessions :
          sessions'[sid].phase # sessions[sid].phase =>
             sessions'[sid].phase = getNextPhase(sessions[sid].phase)]_vars

\* the entry condition of a phase on session row s
PhaseGate(phase, s) ==
    /\ phase = "DESENSITIZATION" => s.currentSUD > 0
    /\ phase = "INSTALLATION"    => s.currentSUD # NULL /\ s.currentSUD <= 2
    /\ phase = "BODY_SCAN"       => s.currentVOC >= 6

\* C11: the phase becomes DESENSITIZATION only if currentSUD > 0 at that
\* moment, INSTALLATION only if currentSUD <= 2, BODY_SCAN only if
\* currentVOC >= 6; an advance whose gate is violated fails and leaves phase,
\* phaseData and currentSetNumber unchanged.
C11_PhaseGated ==
    [][\A sid \in DOMAIN sessions :
          /\ sessions'[sid].phase # sessions[sid].phase =>
                PhaseGate(sessions'[sid].phase, sessions[sid])
          /\ (/\ Called("progress", sid)
              /\ getNextPhase(sessions[sid].phase) # "NONE"
              /\ ~PhaseGate(getNextPhase(sessions[sid].phase), sessions[sid])) =>
                /\ ~last'.ok
                /\ sessions'[sid].phase = sessions[sid].phase
                /\ sessions'[sid].phaseData = sessions[sid].phaseData
                /\ sessions'[sid].currentSetNumber = sessions[sid].currentSetNumber]_vars

\* C12: within one session the Sets carry the setNumbers 1, 2, 3, ... in
\* the order startSet created them: no gap and no repeat.
C12_SetNumbersSequential ==
    \A sid \in DOMAIN sessions :
        \A i \in 1..Len(sets[sid]) : sets[sid][i].setNumber = i

\* C13: startSet creates a Set only on an IN_PROGRESS session whose fresh
\* assessment is not EMERGENCY_STOP; on any other session, and on one whose
\* currentSUD of 9 or 10 makes the assessment EMERGENCY_STOP, it fails,
\* creates no Set and leaves currentSetNumber unchanged.
C13_StartSetGuarded ==
    [][\A sid \in DOMAIN sessions :
          Called("startSet", sid) =>
             /\ Len(sets'[sid]) > Len(sets[sid]) =>
                   /\ sessions[sid].state = "IN_PROGRESS"
                   /\ last'.action \in {"CONTINUE", "GROUNDING", "PAUSE"}
             /\ (sessions[sid].state # "IN_PROGRESS" \/ last'.action = "EMERGENCY_STOP") =>
                   RefusedUntouched(sid)
             /\ (/\ sessions[sid].state = "IN_PROGRESS"
                 /\ sessions[sid].currentSUD \in {9, 10}
                 /\ last'.action = assessCurrentState(sid, TRUE, TRUE).action) =>
                   last'.action = "EMERGENCY_STOP" /\ RefusedUntouched(sid)]_vars

\* C13 witness: startSet was refused on an IN_PROGRESS session with currentSUD 9
C13_Witness ==
    /\ last.op = "startSet" /\ ~last.ok /\ last.action = "EMERGENCY_STOP"
    /\ sessions[last.sid].state = "IN_PROGRESS"
    /\ sessions[last.sid].currentSUD = 9
    /\ sets[last.sid] # <<>>

SudInRange(sud) == 0 <= sud /\ sud <= 10

VocInRange(voc) == 1 <= voc /\ voc <= 7

\* the user has a session that is not terminal
HasActiveSession(u) ==
    \E i \in DOMAIN sessions : sessions[i].userId = u /\ sessions[i].state \in ActiveStates

\* C14: create accepts its SUD and VOC exactly when 0 <= sud <= 10 and
\* 1 <= voc <= 7, and endSet likewise (voc only when given); a value out of
\* range is rejected and neither the Sets nor the Sessions are modified.
C14_Validation ==
    [][/\ \A u \in Users, sud \in CreateSUDs, voc \in CreateVOCs :
             createSession(u, sud, voc) =>
                IF SudInRange(sud) /\ VocInRange(voc)
                THEN ~HasActiveSession(u) => last'.ok
                ELSE ~last'.ok /\ sessions' = sessions /\ sets' = sets
       /\ \A sid \in DOMAIN sessions, sud \in FeedbackSUDs, voc \in FeedbackVOCs,
             report \in BOOLEAN, o \in StoreOutcomes :
             endSet(sid, sud, voc, report, o[1], o[2]) =>
                IF SudInRange(sud) /\ (voc = NULL \/ VocInRange(voc))
                THEN ActiveSetRows(sid, sessions[sid].currentSetNumber) # {} => last'.ok
                ELSE ~last'.ok /\ sessions' = sessions /\ sets' = sets]_vars

\* C15: every stored SUD lies in 0..10 and every stored VOC in 1..7.
C15_MeasurementsInRange ==
    \A sid \in DOMAIN sessions :
        LET s == sessions[sid]
        IN  /\ \A sud \in {s.initialSUD, s.currentSUD, s.finalSUD} :
                  sud # NULL => SudInRange(sud)
            /\ \A voc \in {s.initialVOC, s.currentVOC, s.finalVOC} :
                  voc # NULL => VocInRange(voc)

\* C22: complete on a session that is not terminal leaves it COMPLETED with
\* finalSUD = currentSUD and finalVOC = currentVOC, and marks the target
\* memory resolved exactly when finalSUD <= 2 and finalVOC >= 6, for every
\* currentSUD in 0..10 and currentVOC in 1..7.
C22_CompleteContract ==
    [][\A sid \in DOMAIN sessions :
          (/\ Called("complete", sid)
           /\ sessions[sid].state \in ActiveStates
           /\ SudInRange(sessions[sid].currentSUD)
           /\ VocInRange(sessions[sid].currentVOC)
           /\ ~sessions[sid].isResolved) =>
             /\ last'.ok
             /\ sessions'[sid].state = "COMPLETED"
             /\ sessions'[sid].finalSUD = sessions[sid].currentSUD
             /\ sessions'[sid].finalVOC = sessions[sid].currentVOC
             /\ sessions'[sid].isResolved <=>
                   (sessions'[sid].finalSUD <= 2 /\ sessions'[sid].finalVOC >= 6)]_vars

\* C25: for a user with a LOW risk profile, create(initialSUD 7, initialVOC 3)
\* gives a PREPARING session; start on that session, with no safety check
\* recorded before, assesses LOW with CONTINUE and leaves it IN_PROGRESS.
C25_ScenarioA ==
    [][/\ \A u \in Users :
             (createSession(u, 7, 3) /\ profile[u] = "LOW" /\ ~HasActiveSession(u)) =>
                /\ last'.ok
                /\ sessions'[last'.sid].state = "PREPARING"
       /\ \A sid \in DOMAIN sessions, tdz \in BOOLEAN :
             (/\ startSession(sid, TRUE, TRUE, tdz)
              /\ sessions[sid] = NewSession(sessions[sid].userId, 7, 3)
              /\ profile[sessions[sid].userId] = "LOW"
              /\ checks[sid] = <<>>) =>
                /\ assessCurrentState(sid, TRUE, TRUE).riskLevel = "LOW"
                /\ last'.action = "CONTINUE"
                /\ last'.ok
                /\ sessions'[sid].state = "IN_PROGRESS"]_vars

\* C30: a successful phase advance archives the set count of the outgoing
\* phase (currentSetNumber before the call) under that phase's key in
\* phaseData, keeps the entries of the other phases, resets currentSetNumber
\* to 0 and leaves lifecycleState, currentSUD and currentVOC unchanged.
C30_PhaseAdvanceFrame ==
    [][\A sid \in DOMAIN sessions :
          (/\ Called("progress", sid) \/ Called("updatePhase", sid)
           /\ last'.ok
           /\ sessions'[sid].phase # sessions[sid].phase) =>
             /\ sessions'[sid].phaseData[sessions[sid].phase] = sessions[sid].currentSetNumber
             /\ \A p \in PhaseSet \ {sessions[sid].phase} :
                   sessions'[sid].phaseData[p] = sessions[sid].phaseData[p]
             /\ sessions'[sid].currentSetNumber = 0
             /\ sessions'[sid].state = sessions[sid].state
             /\ sessions'[sid].currentSUD = sessions[sid].currentSUD
             /\ sessions'[sid].currentVOC = sessions[sid].currentVOC]_vars

\* C31: endSet with valid feedback sets currentSUD to feedback.sud and
\* currentVOC to feedback.voc when given, closes one open Set carrying the
\* current set number and changes neither lifecycleState nor phase; with
\* overwhelm or dissociation reported it records one manual safety check
\* (when the store takes it), and whatever that check recommends the
\* lifecycleState is still unchanged.
C31_EndSetFrame ==
    [][\A sid \in DOMAIN sessions :
          (Called("endSet", sid) /\ last'.ok) =>
             \A sud \in FeedbackSUDs, voc \in FeedbackVOCs, report \in BOOLEAN,
                o \in StoreOutcomes :
                (/\ SudInRange(sud) /\ (voc = NULL \/ VocInRange(voc))
                 /\ endSet(sid, sud, voc, report, o[1], o[2])) =>
                   /\ sessions'[sid].currentSUD = sud
                   /\ sessions'[sid].currentVOC =
                         IF voc # NULL THEN voc ELSE sessions[sid].currentVOC
                   /\ \E i \in ActiveSetRows(sid, sessions[sid].currentSetNumber) :
                         /\ ~sets'[sid][i].open /\ sets'[sid][i].sud = sud
                         /\ \A j \in 1..Len(sets[sid]) \ {i} :
                               sets'[sid][j] = sets[sid][j]
                   /\ sessions'[sid].state = sessions[sid].state
                   /\ sessions'[sid].phase = sessions[sid].phase
                   /\ ~report => checks' = checks
                   /\ (report /\ o[2]) =>
                         /\ Len(checks'[sid]) = Len(checks[sid]) + 1
                         /\ checks'[sid][Len(checks'[sid])].checkType = "MANUAL"]_vars

\* C31 witness: endSet with a report succeeded on an IN_PROGRESS session and
\* its manual check recommended EMERGENCY_STOP
C31_Witness ==
    /\ last.op = "endSet" /\ last.ok
    /\ sessions[last.sid].state = "IN_PROGRESS"
    /\ checks[last.sid] # <<>>
    /\ checks[last.sid][Len(checks[last.sid])] =
          [checkType |-> "MANUAL", action |-> "EMERGENCY_STOP", riskLevel |-> "CRITICAL"]

\* the session has a Set with the current set number and none of them is open
CurrentSetClosed(sid) ==
    /\ \E i \in 1..Len(sets[sid]) : sets[sid][i].setNumber = sessions[sid].currentSetNumber
    /\ \A i \in 1..Len(sets[sid]) :
          sets[sid][i].setNumber = sessions[sid].currentSetNumber => ~sets[sid][i].open

\* C33: endSet on a session whose current Set is already closed fails and
\* changes nothing: the Set keeps its end and feedback, the session its
\* currentSUD and currentVOC.
C33_EndSetTwice ==
    [][\A sid \in DOMAIN sessions :
          (Called("endSet", sid) /\ CurrentSetClosed(sid)) =>
             /\ ~last'.ok
             /\ sessions' = sessions
             /\ sets' = sets
             /\ checks' = checks]_vars

\* C33 witness: a second endSet was refused on a Set closed with SUD 2
C33_Witness ==
    /\ last.op = "endSet" /\ ~last.ok
    /\ CurrentSetClosed(last.sid)
    /\ sessions[last.sid].currentSUD = 2
    /\ \E i \in 1..Len(sets[last.sid]) : sets[last.sid][i].sud = 2

\* C34: every entry of the metrics map belongs to a session that is not
\* terminal; a session that becomes COMPLETED or EMERGENCY_STOPPED, by
\* whatever call, has no entry left.
C34_MetricsEvicted ==
    \A sid \in SessionIds :
        activeSessions[sid] # NoMetrics =>
            sid \in DOMAIN sessions /\ sessions[sid].state \in ActiveStates

\* the SUD feedback of the closed rows among rows, in order
RECURSIVE ClosedSuds(_)
ClosedSuds(rows) ==
    IF rows = <<>> THEN <<>>
    ELSE (IF Head(rows).open THEN <<>> ELSE <<Head(rows).sud>>) \o ClosedSuds(Tail(rows))

\* C35: for every session in the metrics map the cached currentSet is the
\* persisted currentSetNumber, and the cached sudProgress is the initial SUD
\* followed by the SUD feedback of the persisted closed Sets in order.
C35_CacheFromStore ==
    \A sid \in DOMAIN sessions :
        activeSessions[sid] # NoMetrics =>
            LET sudProgress == activeSessions[sid].sudProgress
            IN  /\ activeSessions[sid].currentSet = sessions[sid].currentSetNumber
                /\ [i \in 1..Len(sudProgress) |-> sudProgress[i][2]] =
                      <<sessions[sid].initialSUD>> \o ClosedSuds(sets[sid])


\* an EMERGENCY_STOP check is among the three most recent checks of a session
LatchedIn(sessChecks) ==
    \E i \in 1..Len(sessChecks) :
        i > Len(sessChecks) - 3 /\ sessChecks[i].action = "EMERGENCY_STOP"

\* C36: once an EMERGENCY_STOP check is among the three most recent checks of
\* a session, every assessCurrentState on it returns CRITICAL/EMERGENCY_STOP
\* and records a new EMERGENCY_STOP check, resume and startSet are refused,
\* and the latch is released by updateSafetyMeasurements only.
C36_EmergencyLatch ==
    [][\A sid \in DOMAIN sessions :
          LatchedIn(checks[sid]) =>
             /\ Called("assess", sid) =>
                   /\ last'.action = "EMERGENCY_STOP"
                   /\ checks'[sid] = Append(checks[sid],
                                            [checkType |-> "AUTOMATIC",
                                             action    |-> "EMERGENCY_STOP",
                                             riskLevel |-> "CRITICAL"])
             /\ Called("resume", sid) =>
                   ~last'.ok /\ last'.action = "EMERGENCY_STOP"
             /\ Called("startSet", sid) => ~last'.ok
             /\ ~LatchedIn(checks'[sid]) => Called("updateMeasurements", sid)]_vars


\* the Set rows of a session with endTime not set
OpenSets(sid) == {i \in 1..Len(sets[sid]) : sets[sid][i].open}

\* C37: at most one Set of a session is open at any time, and a session that
\* is PAUSED, COMPLETED or EMERGENCY_STOPPED has no open Set that endSet
\* would find and close.
C37_OneOpenSet ==
    \A sid \in DOMAIN sessions :
        /\ Cardinality(OpenSets(sid)) <= 1
        /\ sessions[sid].state \in {"PAUSED", "COMPLETED", "EMERGENCY_STOPPED"} =>
              ActiveSetRows(sid, sessions[sid].currentSetNumber) = {}


\* the sum of the set counts archived in phaseData for the first n phases
RECURSIVE ArchivedSets(_, _)
ArchivedSets(phaseData, n) ==
    IF n = 0 THEN 0
    ELSE (IF phaseData[Phases[n]] = NULL THEN 0 ELSE phaseData[Phases[n]])
         + ArchivedSets(phaseData, n - 1)

\* C38: the number of Set records of a session is the sum of the set counts
\* archived in phaseData plus currentSetNumber, and the Sets started since
\* the counter was last reset are numbered 1..currentSetNumber.
C38_CounterConsistency ==
    \A sid \in DOMAIN sessions :
        LET n == sessions[sid].currentSetNumber
            total == Len(sets[sid])
        IN  /\ total = ArchivedSets(sessions[sid].phaseData, Len(Phases)) + n
            /\ n <= total
            /\ \A k \in 1..n : sets[sid][total - n + k].setNumber = k


\* C39: start, pause and resume, successful or failed, leave the session's
\* phase, currentSUD, currentVOC, currentSetNumber, phaseData and every other
\* column but state and startTime as they were, leave every Set record and
\* every other session as it was, and pause records no safety check.
C39_LifecycleFrame ==
    [][\A sid \in DOMAIN sessions :
          (\E op \in {"start", "pause", "resume"} : Called(op, sid)) =>
             /\ sessions'[sid].phase = sessions[sid].phase
             /\ sessions'[sid].currentSUD = sessions[sid].currentSUD
             /\ sessions'[sid].currentVOC = sessions[sid].currentVOC
             /\ sessions'[sid].currentSetNumber = sessions[sid].currentSetNumber
             /\ sessions'[sid].phaseData = sessions[sid].phaseData
             /\ sessions' = [sessions EXCEPT ![sid].state = sessions'[sid].state,
                                             ![sid].startTime = sessions'[sid].startTime]
             /\ sets' = sets
             /\ Called("pause", sid) => checks' = checks
             /\ ~last'.ok => sessions' = sessions]_vars

\* C39 witness: an IN_PROGRESS session with an open Set and measurements
\* taken was paused
C39_Witness ==
    /\ last.op = "pause" /\ last.ok
    /\ sessions[last.sid].state = "PAUSED"
    /\ sessions[last.sid].currentSetNumber = 1
    /\ sessions[last.sid].startTime # NULL
    /\ OpenSets(last.sid) # {}
    /\ checks[last.sid] # <<>>

-----------------------------------------------------------------------------
(* Claims about concurrent calls, checked under SpecAsync *)

AllDone == calls # <<>> /\ \A c \in CallIds : calls[c].pc = "done"

\* C6: emergencyStop wins against any other call in flight on the session:
\* once both calls have finished the session is EMERGENCY_STOPPED.
C6_EmergencyStopWins ==
    (/\ AllDone
     /\ \E c \in CallIds : calls[c].op = "emergencyStop" /\ calls[c].flag) =>
        sessions[1].state = "EMERGENCY_STOPPED"

\* C7: each user has at most one session that is PREPARING, IN_PROGRESS or
\* PAUSED, also when two create calls interleave their check and insert.
C7_OneActiveSessionPerUser ==
    \A u \in Users :
        Cardinality({i \in DOMAIN sessions :
                        sessions[i].userId = u /\ sessions[i].state \in ActiveStates}) <= 1

\* both calls were op and both succeeded
BothSucceeded(op) ==
    /\ AllDone
    /\ \A c \in CallIds : calls[c].op = op /\ calls[c].ok

\* C23: two concurrent calls on one session leave the records that one of
\* the two serial orders leaves.  For two successful phase advances that is
\* the phase two steps after the one the first of them read; for two
\* successful startSet calls it is two new Sets numbered n+1 and n+2 and
\* currentSetNumber = n+2, n being the counter the first of them read.
C23_MutuallyExclusive ==
    /\ BothSucceeded("progress") =>
          LET p == IF PhaseIndex(calls[1].snap.phase) <= PhaseIndex(calls[2].snap.phase)
                   THEN calls[1].snap.phase ELSE calls[2].snap.phase
          IN  sessions[1].phase = getNextPhase(getNextPhase(p))
    /\ BothSucceeded("startSet") =>
          LET n == IF calls[1].snap.currentSetNumber <= calls[2].snap.currentSetNumber
                   THEN calls[1].snap.currentSetNumber
                   ELSE calls[2].snap.currentSetNumber
          IN  /\ sessions[1].currentSetNumber = n + 2
              /\ \A k \in {n + 1, n + 2} :
                    Cardinality({i \in 1..Len(sets[1]) : sets[1][i].setNumber = k}) = 1

-----------------------------------------------------------------------------
(* Claims about failing store writes, checked under SpecFail *)

\* C24: when startSet, endSet, complete or emergencyStop fails because one
\* of its store writes fails, the Session and Set records are as they were
\* before the call.
C24_FailureCommitsNothing ==
    [][(calls = <<>> /\ calls' # <<>> /\ calls'[1].w > 0) =>
          /\ ~last'.ok
          /\ sessions' = sessions
          /\ sets' = sets]_vars

-----------------------------------------------------------------------------
(* Claims about the assessment, checked under SpecAssess and SpecRisk *)

\* an assessment was made and returned
Assessed == calls # <<>> /\ calls[1].op = "assess"

\* C16: when the snapshot shows currentSUD 9 or 10 the assessment is
\* CRITICAL with EMERGENCY_STOP, whatever initialSUD, duration, profile risk
\* level and recent checks are.
C16_SeverityDominance ==
    (Assessed /\ calls[1].readOk /\ sessions[1].currentSUD \in {9, 10}) =>
        /\ calls[1].act.riskLevel = "CRITICAL"
        /\ calls[1].act.action = "EMERGENCY_STOP"

\* C16 witness: currentSUD 9 was the only indicator of the assessment
C16_Witness ==
    /\ Assessed /\ calls[1].readOk
    /\ sessions[1].currentSUD = 9
    /\ Len(calls[1].act.indicators) = 1

\* the aggregation as the specification tabulates it
ReferenceRisk(indicators) ==
    LET critical == CountSeverity(indicators, "critical")
        high     == CountSeverity(indicators, "high")
        medium   == CountSeverity(indicators, "medium")
    IN  CASE critical >= 1 -> "CRITICAL"
          [] critical = 0 /\ high >= 2 -> "HIGH"
          [] critical = 0 /\ high = 1 -> "MEDIUM"
          [] critical = 0 /\ high = 0 /\ medium >= 2 -> "MEDIUM"
          [] OTHER -> "LOW"

\* C17: the risk level of any list of indicators is CRITICAL with a critical
\* one, else HIGH with two or more high, else MEDIUM with exactly one high or
\* two or more medium, else LOW.
C17_Aggregation ==
    calls[1].op = "aggregate" =>
        calls[1].riskLevel = ReferenceRisk(calls[1].indicators)

\* C17 witness: one high and two medium indicators were aggregated
C17_Witness ==
    /\ calls[1].op = "aggregate"
    /\ CountSeverity(calls[1].indicators, "high") = 1
    /\ CountSeverity(calls[1].indicators, "medium") = 2
    /\ CountSeverity(calls[1].indicators, "critical") = 0

\* C18: CRITICAL gives EMERGENCY_STOP, MEDIUM gives GROUNDING, LOW gives
\* CONTINUE, HIGH gives GROUNDING or PAUSE, and a HIGH risk without the
\* currentSUD-based distress indicator (escalation with profile risk, for
\* one) gives PAUSE.
C18_ActionMapping ==
    (Assessed /\ calls[1].readOk) =>
        LET a == calls[1].act
            currentSUD == OrElse(sessions[1].currentSUD, sessions[1].initialSUD)
        IN  /\ a.riskLevel = "CRITICAL" => a.action = "EMERGENCY_STOP"
            /\ a.riskLevel = "MEDIUM" => a.action = "GROUNDING"
            /\ a.riskLevel = "LOW" => a.action = "CONTINUE"
            /\ a.riskLevel = "HIGH" => a.action \in {"GROUNDING", "PAUSE"}
            /\ (a.riskLevel = "HIGH" /\ currentSUD < 8) => a.action = "PAUSE"

\* C19: when the snapshot cannot be read the assessment is still returned,
\* as HIGH with PAUSE and a pause intervention, never CONTINUE.
C19_FailSafe ==
    (Assessed /\ ~calls[1].readOk) =>
        /\ last.op = "assess" /\ last.ok
        /\ calls[1].act.riskLevel = "HIGH"
        /\ calls[1].act.action = "PAUSE"
        /\ calls[1].act.intervention.type = "pause"

\* C19 witness: the read failed on a snapshot that would assess as CONTINUE
C19_Witness ==
    /\ Assessed /\ ~calls[1].readOk
    /\ assessCurrentState(1, TRUE, TRUE).action = "CONTINUE"

\* C20: when the safety_checks insert fails the assessment returned is the
\* one the pipeline computed from the snapshot, not the fallback, and the
\* call does not fail.
C20_RecordFailureHarmless ==
    (Assessed /\ calls[1].readOk /\ ~calls[1].writeOk) =>
        LET indicators == analyzeSession(sessions[1], sets[1], checks[1],
                                         profile[sessions[1].userId], clock)
            riskLevel == calculateRiskLevel(indicators)
        IN  /\ last.op = "assess" /\ last.ok
            /\ calls[1].act.riskLevel = riskLevel
            /\ calls[1].act.action = determineAction(riskLevel, indicators)
            /\ calls[1].act.intervention = createIntervention(calls[1].act.action, indicators)

\* C20 witness: the insert failed and the assessment returned was CONTINUE
C20_Witness ==
    /\ Assessed /\ calls[1].readOk /\ ~calls[1].writeOk
    /\ calls[1].act.action = "CONTINUE"
    /\ calls[1].act.intervention = NoIntervention

\* the safety checks the assessment found: those before the row it recorded
PriorChecks ==
    IF calls[1].act.recorded THEN SubSeq(checks[1], 1, Len(checks[1]) - 1) ELSE checks[1]

\* the snapshot carries no risk factor besides the SUD values: profile LOW,
\* no more than two hours since the start, no emergency check
NoOtherRisk ==
    /\ profile[sessions[1].userId] = "LOW"
    /\ sessions[1].startTime # NULL => clock - sessions[1].startTime <= 120
    /\ \A i \in 1..Len(PriorChecks) : PriorChecks[i].action = "CONTINUE"

Indicators(d) ==
    {i \in 1..Len(calls[1].act.indicators) : calls[1].act.indicators[i].description = d}

\* C27: the distress indicator is present exactly when the session's
\* currentSUD is 8 or more, high at 8 and critical at 9 or 10; a session
\* whose currentSUD is 0 has none, whatever its initialSUD.
C27_DistressFromCurrentSUD ==
    (Assessed /\ calls[1].readOk) =>
        /\ Indicators("High distress level") # {} <=> sessions[1].currentSUD >= 8
        /\ \A i \in Indicators("High distress level") :
              calls[1].act.indicators[i].severity =
                 IF sessions[1].currentSUD >= 9 THEN "critical" ELSE "high"

\* C28: the escalation indicator is present exactly when currentSUD minus
\* initialSUD is 3 or more, high for 3 or 4 and critical from 5, whether or
\* not the session has Sets.
C28_EscalationFromRise ==
    (Assessed /\ calls[1].readOk) =>
        LET rise == sessions[1].currentSUD - sessions[1].initialSUD
        IN  /\ Indicators("Rapid distress increase") # {} <=> rise >= 3
            /\ \A i \in Indicators("Rapid distress increase") :
                  calls[1].act.indicators[i].severity =
                     IF rise >= 5 THEN "critical" ELSE "high"

\* the three most recent of the checks the assessment found
LastThree ==
    {i \in 1..Len(PriorChecks) : i > Len(PriorChecks) - 3}

\* C29: the recentEmergency indicator, critical, is present exactly when one
\* of the session's three most recent safety checks has action
\* EMERGENCY_STOP or PROFESSIONAL_REFERRAL; an older check does not raise it.
C29_RecentEmergency ==
    (Assessed /\ calls[1].readOk) =>
        /\ Indicators("Recent emergency interventions") # {} <=>
              \E i \in LastThree :
                 PriorChecks[i].action \in {"EMERGENCY_STOP", "PROFESSIONAL_REFERRAL"}
        /\ \A i \in Indicators("Recent emergency interventions") :
              calls[1].act.indicators[i].severity = "critical"

\* C29 witness: the fourth most recent check was an EMERGENCY_STOP, the
\* three after it were not, and the assessment carries no such indicator
C29_Witness ==
    /\ Assessed /\ calls[1].readOk
    /\ Len(PriorChecks) = 4
    /\ PriorChecks[1].action = "EMERGENCY_STOP"
    /\ \A i \in LastThree : PriorChecks[i].action = "CONTINUE"
    /\ Indicators("Recent emergency interventions") = {}

\* C32: every assessment, the fallback included, is recorded as one safety
\* check with the action and risk level returned, unless the insert was
\* attempted and the store rejected it.
C32_EveryAssessmentRecorded ==
    Assessed =>
        \/ calls[1].readOk /\ ~calls[1].writeOk
        \/ /\ calls[1].act.recorded
           /\ Len(checks[1]) = Len(PriorChecks) + 1
           /\ checks[1][Len(checks[1])].action = calls[1].act.action
           /\ checks[1][Len(checks[1])].riskLevel = calls[1].act.riskLevel

\* the resources of type professional among the crisis resources
ProfessionalCount ==
    Cardinality({i \in DOMAIN crisisResources : crisisResources[i] = "professional"})

\* C21: an assessment whose action is not CONTINUE, the fallback included,
\* carries an intervention with at least one instruction; with EMERGENCY_STOP
\* the intervention carries the whole crisis resource list, and a
\* PROFESSIONAL_REFERRAL intervention carries the professional resources and
\* no other.
C21_ActionableContent ==
    calls # <<>> =>
        LET a == calls[1].act
            resources == a.intervention.resources
        IN  /\ a.action # "CONTINUE" =>
                  a.intervention.type # "NONE" /\ a.intervention.instructions >= 1
            /\ a.action = "EMERGENCY_STOP" =>
                  resources = <<"hotline", "text", "emergency", "professional">>
            /\ a.action = "PROFESSIONAL_REFERRAL" =>
                  /\ Len(resources) = ProfessionalCount
                  /\ \A i \in 1..Len(resources) : resources[i] = "professional"

\* C21 witness: an assessment of a readable snapshot came out EMERGENCY_STOP
C21_Witness ==
    /\ Assessed /\ calls[1].readOk
    /\ calls[1].act.action = "EMERGENCY_STOP"
    /\ calls[1].act.intervention.type = "emergency_stop"

====
